---- MODULE Spec2Model ----
(***************************************************************************)
(* The invocation layer of prompti: the instrumented wrapper               *)
(* ModelClient.run / ModelClient.arun / SyncModelClient.run around the     *)
(* provider adapters' _run, for the three HTTP adapters                    *)
(*   "openai"         src/prompti/model_client/openai.py                   *)
(*   "claude"         src/prompti/model_client/claude.py                   *)
(*   "openai_client"  src/src/prompti/model_client/openai_client.py        *)
(* and the adapter "litellm" (src/prompti/model_client/litellm.py), which  *)
(* hands the transport to the litellm package.                             *)
(* One call is a generator: the consumer pulls, the generator runs to its  *)
(* next yield, to its end or to a raised exception.                        *)
(* The first pull translates the caller's Request into the adapter's wire  *)
(* request. A ModelClientRecorder (src/src/prompti/replay.py) may stand    *)
(* between the consumer and the adapter.                                   *)
(* A call may also be made through PromptEngine.run                        *)
(* (src/src/prompti/engine.py), which merges the model configs, consults   *)
(* the HTTPModelConfigLoader and creates the client. The SSE decoder of    *)
(* openai_client.py is modelled a second time on its own, reading a body   *)
(* that arrives in chunks of text.                                         *)
(***************************************************************************)
EXTENDS Integers, Sequences, FiniteSets, TLC

\* ---------------------------------------------------------------- bounds
NCalls == 2
MaxLines == 3
MaxLinesCalls == 1
MaxMessages == 2

\* stop_after_attempt(3) of the @retry decorator
MaxAttempts == 3

Calls == 1..NCalls

Adapters == {"openai", "claude", "openai_client", "litellm"}

Providers == {"openai", "claude", "litellm"}

\* the class attribute `provider` of each adapter
Provider(a) ==
    CASE a = "claude" -> "claude"
      [] a = "litellm" -> "litellm"
      [] OTHER -> "openai"

Statuses == {200, 500}

\* ------------------------------------------------------------ wire lines
\* One line of an event stream (or, for a non-streaming call, the one
\* response body). args is the argument text a tool-call fragment carries,
\* as a sequence of pieces: "L" is the text {"a": and "R" is the text 1}.
\* id is the call id of a tool call, which the vendor sends with the
\* fragment that names the function. text is the text a content delta or a
\* content carries, as a sequence of pieces.
BlankLine == [k |-> "blank", name |-> FALSE, args |-> <<>>, id |-> "none", text |-> <<>>]

DoneLine == [k |-> "done", name |-> FALSE, args |-> <<>>, id |-> "none", text |-> <<>>]

BadLine == [k |-> "bad", name |-> FALSE, args |-> <<>>, id |-> "none", text |-> <<>>]

TextLine == [k |-> "text", name |-> FALSE, args |-> <<>>, id |-> "none", text |-> <<"t">>]

ToolOpen == [k |-> "tool", name |-> TRUE, args |-> <<"L">>, id |-> "call_1", text |-> <<>>]

ToolCont == [k |-> "tool", name |-> FALSE, args |-> <<"R">>, id |-> "none", text |-> <<>>]

ToolWhole == [k |-> "tool", name |-> TRUE, args |-> <<"L", "R">>, id |-> "call_1", text |-> <<>>]

UsageLine == [k |-> "usage", name |-> FALSE, args |-> <<>>, id |-> "none", text |-> <<>>]

Lines == {BlankLine, DoneLine, BadLine, TextLine, ToolOpen, ToolCont, ToolWhole, UsageLine}

Bodies == {TextLine, ToolOpen, ToolWhole}

\* an OpenAI-style message that holds a content and a tool call
TextAndTool ==
    [k |-> "both", name |-> TRUE, args |-> <<"L", "R">>, id |-> "call_1", text |-> <<"t">>]

\* the messages an OpenAI-style vendor answers a non-streaming request with
MessageBodies(lines) ==
    (Bodies \cap lines)
        \cup (IF {TextLine, ToolWhole} \subseteq lines THEN {TextAndTool} ELSE {})

RECURSIVE SeqsUpTo(_, _)
SeqsUpTo(S, n) ==
    IF n = 0 THEN {<<>>}
    ELSE LET shorter == SeqsUpTo(S, n - 1)
         IN  shorter \cup {Append(s, x) : s \in {t \in shorter : Len(t) = n - 1}, x \in S}

\* json.loads on an argument text: only the whole object text parses
JsonValid(s) == s = <<"L", "R">>

JsonLoads(s) == <<"json">> \o s

EmptyArgs == <<"json">>

RawArgs(s) == <<"raw">> \o s

\* ---------------------------------------------------------------- events
NoEvent == [kind |-> "none", content |-> <<>>, line |-> 0, call_id |-> "none"]

\* a Message the adapter yields; call_id is the "call_id" entry of the
\* content of a tool_use Message, "none" where the content has no such entry
Event(kind, content, line) ==
    [kind |-> kind, content |-> content, line |-> line, call_id |-> "none"]

\* a tool_use Message whose content holds the entry "call_id": id
ToolUseWithId(content, id, line) ==
    [kind |-> "tool_use", content |-> content, line |-> line, call_id |-> id]

Decoded(ev, ctl, usage) == [ev |-> ev, ctl |-> ctl, usage |-> usage]

VARIABLES
    active, adapterMenu, streamMenu, vendorLines, lineCap, recorded, requestMenu,
    pc, adapter, stream, attempts, resp, wire, pos, events, exc, stopped, resume,
    status, broken,
    first, first_token, token_gap,
    inflight, request_counter, prompt_tokens, completion_tokens,
    trace_id, rows,
    given, request, payload,
    global_cfg, input_cfg, template_cfg, cfg, looked_up,
    layout, fetch, load_result, models,
    text, received, cuts, buffer, nlines, emitted, returned

\* recorded: the client the consumer calls is a ModelClientRecorder around
\* the adapter
fixture == <<active, adapterMenu, streamMenu, vendorLines, lineCap, recorded, requestMenu>>

callvars == <<pc, adapter, stream, attempts, resp, wire, pos, events, exc, stopped, resume>>

\* what the transport did: the status code of the response, and whether the
\* connection failed
http == <<status, broken>>

timing == <<first, first_token, token_gap>>

metrics == <<inflight, request_counter, prompt_tokens, completion_tokens>>

\* ModelClientRecorder: its attribute _trace_id, and for each call the
\* trace_id fields of the rows written for it
recorder == <<trace_id, rows>>

\* given: the Request as the caller made it; request: the caller's Request
\* object as it is now; payload: the wire request the adapter built from it
reqvars == <<given, request, payload>>

\* PromptEngine: its attribute _global_cfg, and for each run the config
\* passed in, the config of the template variant, the merged config, and
\* whether the run made the model-config loader send a request
engine == <<global_cfg, input_cfg, template_cfg, cfg, looked_up>>

\* HTTPModelConfigLoader: the layout of the loader last used (src/prompti
\* or src/src/prompti), what its last HTTP request met, what its last load()
\* did for its caller, and its attribute models
loader == <<layout, fetch, load_result, models>>

\* one streamed response body as the transport delivers it: the text of the
\* whole body, how much of it has arrived, where the chunks ended, and the
\* decoder's local buffer, the number of lines it has split out, the
\* responses it has yielded, and whether it has returned
sse == <<text, received, cuts, buffer, nlines, emitted, returned>>

vars == <<fixture, callvars, http, timing, metrics, recorder, reqvars, engine, loader, sse>>


\* ------------------------------------------------------------- decoders
\* a decoder that leaves the loop on a line it cannot decode
OpenAIStreamLineBadBreaks(l, i) ==
    CASE l.k = "blank" -> Decoded(NoEvent, "next", 0)
      [] l.k = "done" -> Decoded(NoEvent, "stop", 0)
      [] l.k = "bad" -> Decoded(NoEvent, "stop", 0)
      [] l.k = "text" -> Decoded(Event("text", l.text, i), "next", 0)
      [] l.k = "tool" ->
            IF l.name /\ JsonValid(l.args)
            THEN Decoded(Event("tool_use", JsonLoads(l.args), i), "next", 0)
            ELSE Decoded(NoEvent, "next", 0)
      [] l.k = "usage" -> Decoded(NoEvent, "IndexError", 0)

\* a decoder that takes the terminator line for a line to skip
OpenAIStreamLineDoneSkipped(l, i) ==
    CASE l.k = "blank" -> Decoded(NoEvent, "next", 0)
      [] l.k = "done" -> Decoded(NoEvent, "next", 0)
      [] l.k = "bad" -> Decoded(NoEvent, "next", 0)
      [] l.k = "text" -> Decoded(Event("text", l.text, i), "next", 0)
      [] l.k = "tool" ->
            IF l.name /\ JsonValid(l.args)
            THEN Decoded(Event("tool_use", JsonLoads(l.args), i), "next", 0)
            ELSE Decoded(NoEvent, "next", 0)
      [] l.k = "usage" -> Decoded(NoEvent, "IndexError", 0)

\* OpenAIClient._run, streaming branch: one line of resp.aiter_lines()
OpenAIStreamLine(l, i) ==
    CASE l.k = "blank" -> Decoded(NoEvent, "next", 0)
      [] l.k = "done" -> Decoded(NoEvent, "stop", 0)
      [] l.k = "bad" -> Decoded(NoEvent, "next", 0)
      [] l.k = "text" -> Decoded(Event("text", l.text, i), "next", 0)
      [] l.k = "tool" ->
            IF l.name /\ JsonValid(l.args)
            THEN Decoded(Event("tool_use", JsonLoads(l.args), i), "next", 0)
            ELSE Decoded(NoEvent, "next", 0)
      [] l.k = "usage" -> Decoded(NoEvent, "IndexError", 0)

\* OpenAIClient._run, non-streaming branch: the body of resp.json()
OpenAIBody(l, i) ==
    CASE l.k = "text" /\ l.text # <<>> -> Decoded(Event("text", l.text, i), "next", 0)
      [] l.k = "tool" ->
            IF JsonValid(l.args)
            THEN Decoded(Event("tool_use", JsonLoads(l.args), i), "next", 0)
            ELSE Decoded(NoEvent, "JSONDecodeError", 0)
      [] l.k = "both" ->
            IF JsonValid(l.args)
            THEN Decoded(Event("tool_use", JsonLoads(l.args), i), "next", 0)
            ELSE Decoded(NoEvent, "JSONDecodeError", 0)
      [] OTHER -> Decoded(NoEvent, "next", 0)

\* ClaudeClient._run, streaming branch
ClaudeStreamLine(l, i) ==
    CASE l.k = "blank" -> Decoded(NoEvent, "next", 0)
      [] l.k = "done" -> Decoded(NoEvent, "stop", 0)
      [] l.k = "bad" -> Decoded(NoEvent, "next", 0)
      [] l.k = "text" -> Decoded(Event("text", l.text, i), "next", 0)
      [] l.k = "tool" -> Decoded(ToolUseWithId(RawArgs(l.args), l.id, i), "next", 0)
      [] l.k = "usage" -> Decoded(NoEvent, "next", 1)

\* ClaudeClient._run, non-streaming branch: one content block
ClaudeBody(l, i) ==
    CASE l.k = "text" -> Decoded(Event("text", l.text, i), "next", 0)
      [] l.k = "tool" -> Decoded(ToolUseWithId(RawArgs(l.args), l.id, i), "next", 0)
      [] OTHER -> Decoded(NoEvent, "next", 0)

\* OpenAIClient._aprocess_streaming_response (src/src): one complete line
AProcessStreamingLine(l, i) ==
    CASE l.k = "blank" -> Decoded(NoEvent, "next", 0)
      [] l.k = "done" -> Decoded(NoEvent, "stop", 0)
      [] l.k = "bad" -> Decoded(NoEvent, "next", 0)
      [] l.k = "text" -> Decoded(Event("text", l.text, i), "next", 0)
      [] l.k = "tool" -> Decoded(ToolUseWithId(RawArgs(l.args), l.id, i), "next", 0)
      [] l.k = "usage" -> Decoded(NoEvent, "next", 0)
      [] l.k = "other" -> Decoded(NoEvent, "next", 0)

\* OpenAIClient._process_non_streaming_response (src/src)
ProcessNonStreaming(l, i) ==
    CASE l.k = "text" -> Decoded(Event("text", l.text, i), "next", 0)
      [] l.k = "tool" -> Decoded(ToolUseWithId(RawArgs(l.args), l.id, i), "next", 0)
      [] l.k = "both" -> Decoded(ToolUseWithId(RawArgs(l.args), l.id, i), "next", 0)
      [] OTHER -> Decoded(NoEvent, "ValueError", 0)

\* LiteLLMClient._run: the response of litellm.acompletion is either a list
\* of tool calls, handled one by one, or a content, or neither; whatever goes
\* wrong while it is handled is caught
LiteLLMBody(l, i) ==
    CASE l.k = "text" /\ l.text # <<>> -> Decoded(Event("text", l.text, i), "next", 0)
      [] l.k = "tool" ->
            IF JsonValid(l.args)
            THEN Decoded(Event("tool_use", JsonLoads(l.args), i), "next", 0)
            ELSE Decoded(NoEvent, "JSONDecodeError", 0)
      [] l.k = "both" ->
            IF JsonValid(l.args)
            THEN Decoded(Event("tool_use", JsonLoads(l.args), i), "next", 0)
            ELSE Decoded(NoEvent, "JSONDecodeError", 0)
      [] l.k = "text" -> Decoded(NoEvent, "next", 0)
      [] OTHER -> Decoded(NoEvent, "Unextractable", 0)

\* the responses litellm.acompletion can return
LiteLLMBodies(lines, n) ==
    SeqsUpTo({l \in lines : l.k = "tool"}, n)
        \cup {<<l>> : l \in {TextLine, BlankLine} \cap lines}
        \cup {<<l>> : l \in MessageBodies(lines) \cap {TextAndTool}}

\* the content of an Anthropic reply: a list of blocks
ClaudeBodies(lines, n) == SeqsUpTo(Bodies \cap lines, n) \ {<<>>}

\* what the adapter a makes of the i-th line (or body) l
Decode(a, s, l, i) ==
    CASE a = "openai" /\ s -> OpenAIStreamLine(l, i)
      [] a = "openai" /\ ~s -> OpenAIBody(l, i)
      [] a = "claude" /\ s -> ClaudeStreamLine(l, i)
      [] a = "claude" /\ ~s -> ClaudeBody(l, i)
      [] a = "openai_client" /\ s -> AProcessStreamingLine(l, i)
      [] a = "openai_client" /\ ~s -> ProcessNonStreaming(l, i)
      [] a = "litellm" -> LiteLLMBody(l, i)

\* the except clauses of OpenAIClient._run (src/src): every exception, the
\* transport's included, becomes an error response; the older adapters
\* catch nothing around the request
CatchesAll(a) == a = "openai_client"

\* the try of LiteLLMClient._run covers the handling of the response, not
\* the call of litellm.acompletion
CatchesDecoding(a) == a = "litellm"

\* the status test after the request returns
IsErrorStatus(a, st) ==
    IF a = "openai_client" THEN st >= 400 ELSE st # 200

\* an error event that carries a digest of the body in place of the body
ErrorContentDigest(a) == <<"detail">>

\* the content of the error event for a vendor-reported failure
ErrorContent(a) ==
    IF a = "openai_client" THEN <<"detail">> ELSE <<"body">>


\* -------------------------------------------------- request translation
\* The content of a message is a str or a dict. StrC is a text that is not
\* JSON, DictC a dict, and JsonStrC the text json.dumps makes of DictC.
StrC == [t |-> "str", v |-> <<"s">>]

DictC == [t |-> "dict", v |-> <<"d">>]

JsonDumps(x) == IF x.t = "str" THEN [t |-> "str", v |-> <<"quoted">> \o x.v]
                ELSE [t |-> "str", v |-> <<"json">> \o x.v]

JsonStrC == JsonDumps(DictC)

\* json.loads of a str content: defined on JSON text only
IsJsonText(x) == x.t = "str" /\ Len(x.v) >= 2 /\ x.v[1] = "json"

JsonParse(x) == [t |-> "dict", v |-> Tail(x.v)]

Msg(role, kind, content) == [role |-> role, kind |-> kind, content |-> content]

\* the messages a caller puts in a Request
Messages ==
    { Msg("user", "text", StrC),
      Msg("user", "image_url", StrC),
      Msg("user", "image", StrC),
      Msg("assistant", "tool_use", DictC),
      Msg("assistant", "tool_use", JsonStrC),
      Msg("assistant", "tool_use", StrC),
      Msg("user", "tool_result", StrC),
      Msg("user", "tool_result", DictC),
      Msg("user", "file", StrC) }

\* ToolChoice, and a caller-made OpenAI-style object naming get_time
ToolChoices == {"auto", "none", "required", "force", "fn:get_time"}

\* the keys a caller overrides through extra_params
OverrideKeys == {"temperature", "top_p", "tool_choice"}

\* the models for which OpenAIClient (src/src) removes top_p
NoTopPModels == {"gpt-5"}

Models == {"gpt-4o", "gpt-5"}

\* RunParams, with the model of the client's ModelConfig
Request(msgs, tools, choice, temp, extra, model) ==
    [messages |-> msgs, tools |-> tools, choice |-> choice, temperature |-> temp,
     extra_params |-> extra, model |-> model, trace_context |-> {}]

DefaultRequest ==
    Request(<<Msg("user", "text", StrC)>>, FALSE, "auto", "absent", {}, "gpt-4o")

\* Requests that differ in their messages, and Requests that differ in
\* their tools, sampling knobs, overrides and model
RequestsUpTo(n) ==
    {Request(m, FALSE, "auto", "absent", {}, "gpt-4o") : m \in SeqsUpTo(Messages, n)}
    \cup {Request(<<Msg("user", "text", StrC)>>, TRUE, ch, t, x, mo) :
              ch \in ToolChoices, t \in {"absent", "request"},
              x \in SUBSET OverrideKeys, mo \in Models}
    \cup {Request(<<Msg("user", "text", StrC)>>, FALSE, "auto", t, x, mo) :
              t \in {"absent", "request"}, x \in SUBSET OverrideKeys, mo \in Models}

\* the Requests the caller chooses from
MenuRequests(menu) ==
    IF menu = "all" THEN RequestsUpTo(MaxMessages) ELSE {DefaultRequest}

\* one message on the wire; keep is FALSE for a message left out, raises
\* TRUE when the translation of the message raises
Wire(role, type, content) ==
    [keep |-> TRUE, raises |-> FALSE, role |-> role, type |-> type, content |-> content]

Dropped == [keep |-> FALSE, raises |-> FALSE, role |-> "", type |-> "", content |-> StrC]

Raising == [keep |-> FALSE, raises |-> TRUE, role |-> "", type |-> "", content |-> StrC]

\* a loop that sends a message of an unknown kind as a text message
OpenAIMessageKeepsUnknown(m) ==
    LET role == IF m.kind = "tool_result" THEN "tool" ELSE m.role
    IN  CASE m.kind = "image_url" -> Wire(role, "image_url", m.content)
          [] m.kind = "tool_use" ->
                IF m.content.t = "dict"
                THEN Wire(role, "tool_calls", JsonDumps(m.content))
                ELSE IF IsJsonText(m.content)
                THEN Wire(role, "tool_calls", JsonDumps(JsonParse(m.content)))
                ELSE Raising
          [] m.kind = "tool_result" ->
                Wire(role, "content",
                     IF m.content.t = "str" THEN m.content ELSE JsonDumps(m.content))
          [] OTHER -> Wire(role, "content", m.content)

\* OpenAIClient._run: one pass of the loop over p.messages
OpenAIMessage(m) ==
    LET role == IF m.kind = "tool_result" THEN "tool" ELSE m.role
    IN  CASE m.kind \in {"text", "thinking"} -> Wire(role, "content", m.content)
          [] m.kind = "image_url" -> Wire(role, "image_url", m.content)
          [] m.kind = "tool_use" ->
                IF m.content.t = "dict"
                THEN Wire(role, "tool_calls", JsonDumps(m.content))
                ELSE IF IsJsonText(m.content)
                THEN Wire(role, "tool_calls", JsonDumps(JsonParse(m.content)))
                ELSE Raising
          [] m.kind = "tool_result" ->
                Wire(role, "content",
                     IF m.content.t = "str" THEN m.content ELSE JsonDumps(m.content))
          [] OTHER -> Dropped

\* ClaudeClient._run: the blocks made of one message
ClaudeMessage(m) ==
    CASE m.kind = "text" -> Wire(m.role, "text", m.content)
      [] m.kind = "thinking" -> Wire(m.role, "thinking", m.content)
      [] m.kind \in {"image", "image_url"} -> Wire(m.role, "image", m.content)
      [] m.kind = "tool_use" ->
            IF m.content.t = "dict"
            THEN Wire(m.role, "tool_use", m.content)
            ELSE IF IsJsonText(m.content)
            THEN Wire(m.role, "tool_use", JsonParse(m.content))
            ELSE Raising
      [] m.kind = "tool_result" -> Wire(m.role, "tool_result", m.content)
      [] OTHER -> Dropped

\* LiteLLMClient._run: one pass of the loop over p.messages
LiteLLMMessage(m) ==
    LET role == IF m.kind = "tool_result" THEN "tool" ELSE m.role
    IN  CASE m.kind \in {"text", "thinking"} -> Wire(role, "content", m.content)
          [] m.kind = "image_url" -> Wire(role, "image_url", m.content)
          [] m.kind = "tool_use" ->
                IF m.content.t = "dict"
                THEN Wire(role, "tool_calls", JsonDumps(m.content))
                ELSE IF IsJsonText(m.content)
                THEN Wire(role, "tool_calls", JsonDumps(JsonParse(m.content)))
                ELSE Raising
          [] m.kind = "tool_result" ->
                Wire(role, "content",
                     IF m.content.t = "str" THEN m.content ELSE JsonDumps(m.content))
          [] OTHER -> Dropped

\* OpenAIClient._build_request_data (src/src): role and content as they are
BuildMessage(m) == Wire(m.role, "content", m.content)

WireMessage(a, m) ==
    CASE a = "openai" -> OpenAIMessage(m)
      [] a = "claude" -> ClaudeMessage(m)
      [] a = "litellm" -> LiteLLMMessage(m)
      [] a = "openai_client" -> BuildMessage(m)

\* the loop over p.messages: the wire messages kept, in order
RECURSIVE WireMessages(_, _)
WireMessages(a, msgs) ==
    IF msgs = <<>> THEN <<>>
    ELSE LET w == WireMessage(a, msgs[Len(msgs)])
             before == WireMessages(a, SubSeq(msgs, 1, Len(msgs) - 1))
         IN  IF w.keep THEN Append(before, w) ELSE before

TranslationRaises(a, msgs) == \E i \in DOMAIN msgs : WireMessage(a, msgs[i]).raises

\* OpenAIClient._run: the tool_choice computed from p.tool_params
OpenAIToolChoice(r) ==
    CASE ~r.tools -> "absent"
      [] r.choice = "auto" -> "absent"
      [] OTHER -> r.choice

\* ClaudeClient._run: the tool_choice computed from p.tool_params
ClaudeToolChoice(r) ==
    IF r.tools /\ r.choice = "required" THEN "any" ELSE "absent"

\* OpenAIClient._add_tool_params (src/src): a choice that is none of auto,
\* none, required is taken for the name of the function to call
AddToolParamsChoice(r) ==
    CASE ~r.tools -> "absent"
      [] r.choice \in {"auto", "none", "required"} -> r.choice
      [] r.choice = "force" -> "fn:force"
      [] OTHER -> "fn:object"

\* the value of payload[key] after payload.update(p.extra_params)
Updated(key, extra, computed) == IF key \in extra THEN "override" ELSE computed

\* the wire request each adapter builds; LiteLLMClient starts from the
\* overrides and passes no tools, OpenAIClient (src/src) removes top_p last
Payload(a, r) ==
    LET msgs == WireMessages(a, r.messages)
        x == r.extra_params
    IN  CASE a = "openai" ->
               [messages |-> msgs,
                tools |-> r.tools,
                temperature |-> Updated("temperature", x, r.temperature),
                top_p |-> Updated("top_p", x, "absent"),
                tool_choice |-> Updated("tool_choice", x, OpenAIToolChoice(r))]
          [] a = "claude" ->
               [messages |-> msgs,
                tools |-> r.tools,
                temperature |-> Updated("temperature", x, r.temperature),
                top_p |-> Updated("top_p", x, "absent"),
                tool_choice |-> Updated("tool_choice", x, ClaudeToolChoice(r))]
          [] a = "litellm" ->
               [messages |-> msgs,
                tools |-> FALSE,
                temperature |-> IF r.temperature # "absent" THEN r.temperature
                                ELSE Updated("temperature", x, "absent"),
                top_p |-> Updated("top_p", x, "absent"),
                tool_choice |-> Updated("tool_choice", x, "absent")]
          [] a = "openai_client" ->
               [messages |-> msgs,
                tools |-> r.tools,
                temperature |-> Updated("temperature", x, r.temperature),
                top_p |-> IF r.model \in NoTopPModels THEN "absent"
                          ELSE Updated("top_p", x, "absent"),
                tool_choice |-> Updated("tool_choice", x, AddToolParamsChoice(r))]

NoPayload ==
    [messages |-> <<>>, tools |-> FALSE, temperature |-> "absent",
     top_p |-> "absent", tool_choice |-> "absent"]

\* the keys arun and _build_request_data (src/src) store in
\* params.trace_context
TraceKeys ==
    {"llm_request_body", "llm_response_body", "responses", "perf_metrics", "llm_request"}

\* a request builder that removes top_p from the caller's overrides
TracedPopsOverride(a, r) ==
    IF a = "openai_client"
    THEN [r EXCEPT !.trace_context = @ \cup TraceKeys,
                   !.extra_params = IF r.model \in NoTopPModels THEN @ \ {"top_p"} ELSE @]
    ELSE r

\* what the call leaves in the caller's Request
Traced(a, r) ==
    IF a = "openai_client"
    THEN [r EXCEPT !.trace_context = @ \cup TraceKeys]
    ELSE r

\* ----------------------------------------------------- engine and configs
\* A ModelConfig. given is FALSE where the engine holds None in place of a
\* config; a field that is None or "" holds "none". Each source has values
\* of its own, so that a merged value tells where it comes from.
Config(provider, model, api_key) ==
    [given |-> TRUE, provider |-> provider, model |-> model, api_key |-> api_key]

NoConfig == [given |-> FALSE, provider |-> "none", model |-> "none", api_key |-> "none"]

Fields == {"provider", "model", "api_key"}

Empty(v) == v = "none"

\* the model_cfg argument of PromptEngine.run; "dummy" is a provider id no
\* client class is registered for
InputConfigs ==
    {NoConfig} \cup {Config(p, m, "none") : p \in {"none", "openai", "dummy"},
                                              m \in {"none", "m_in"}}

\* the model_cfg of the template variant
TemplateConfigs ==
    {NoConfig} \cup {Config(p, m, k) : p \in {"none", "claude"},
                                         m \in {"none", "m_tpl"},
                                         k \in {"none", "key_tpl"}}

\* the global_model_config the engine is built with
GlobalConfigs ==
    {NoConfig} \cup {Config(p, m, "key_glb") : p \in {"none", "litellm"},
                                                 m \in {"none", "m_glb"}}

\* template_cfg or self._global_cfg
BaseConfig(t, g) == IF t.given THEN t ELSE g

\* the loop over ModelConfig.model_fields: a field the input config leaves
\* empty takes the value of the base config
FillFrom(i, base) ==
    [f \in DOMAIN i |->
        IF f = "given" THEN TRUE ELSE IF Empty(i[f]) THEN base[f] ELSE i[f]]

\* _merge_model_configs up to the registry lookup; NoConfig where it raises
\* for want of any config
MergedFields(i, t, g) ==
    IF i.given
    THEN IF BaseConfig(t, g).given THEN FillFrom(i, BaseConfig(t, g)) ELSE i
    ELSE BaseConfig(t, g)

\* the API fields the registry supplies where the merged config has none
WithRegistry(m, reg) ==
    IF reg = "loaded" /\ Empty(m.api_key) THEN [m EXCEPT !.api_key = "key_reg"] ELSE m

\* a merge that only asks for some config to be there
MergeRaisesOnlyNone(m) == ~m.given

\* the ValueErrors of _merge_model_configs
MergeRaises(m) == ~m.given \/ Empty(m.provider) \/ Empty(m.model)

\* create_client: the client class registered for the provider id, "none"
\* where it raises ValueError
CreateClient(p) ==
    CASE p = "openai" -> "openai_client"
      [] p = "claude" -> "claude"
      [] p = "litellm" -> "litellm"
      [] OTHER -> "none"

\* what an HTTP request of the loader can meet
FetchOutcomes == {"ok", "RequestError", "HTTPStatusError"}

\* what load() does for its caller after a request that met o: the loader
\* of src/prompti lets the error out, _do_load of src/src/prompti catches
\* and prints it
LoadResult(lay, o) == IF lay = "old" /\ o # "ok" THEN o ELSE "returned"

\* the application calls loader.load() while it sets up, before it runs a
\* prompt; the loader of src/src/prompti asks the endpoint only when its
\* reload interval has elapsed
Load ==
    /\ \A c \in Calls : pc[c] = "idle"
    /\ \E lay \in {"old", "new"}, due \in BOOLEAN, o \in FetchOutcomes :
          LET asks == lay = "old" \/ due
          IN  /\ layout' = lay
              /\ fetch' = IF asks THEN o ELSE "none"
              /\ load_result' = IF asks THEN LoadResult(lay, o) ELSE "returned"
              /\ models' = IF asks /\ lay = "new" /\ o = "ok" THEN "loaded" ELSE models
    /\ UNCHANGED <<fixture, callvars, http, timing, metrics, recorder, reqvars, engine, sse>>

\* PromptEngine.run up to model_client.arun(params): merge the configs, look
\* the model up in the registry (get_model_config reloads a loader whose
\* interval has elapsed), check the merged config, create the client
EngineRun(c) ==
    /\ c \in active
    /\ pc[c] = "idle"
    /\ \E i \in InputConfigs, t \in TemplateConfigs, s \in streamMenu,
          due \in BOOLEAN, o \in FetchOutcomes :
          LET m0 == MergedFields(i, t, global_cfg)
              lookup == m0.given /\ ~Empty(m0.model)
              asks == lookup /\ due
              reg == IF asks /\ o = "ok" THEN "loaded" ELSE models
              m == IF lookup THEN WithRegistry(m0, reg) ELSE m0
              a == CreateClient(m.provider)
          IN  /\ input_cfg' = [input_cfg EXCEPT ![c] = i]
              /\ template_cfg' = [template_cfg EXCEPT ![c] = t]
              /\ cfg' = [cfg EXCEPT ![c] = m]
              /\ looked_up' = [looked_up EXCEPT ![c] = asks]
              /\ models' = reg
              /\ layout' = IF asks THEN "new" ELSE layout
              /\ fetch' = IF asks THEN o ELSE fetch
              /\ load_result' = IF asks THEN LoadResult("new", o) ELSE load_result
              /\ IF MergeRaises(m) \/ a = "none"
                 THEN /\ pc' = [pc EXCEPT ![c] = "raised"]
                      /\ exc' = [exc EXCEPT ![c] = "ValueError"]
                      /\ UNCHANGED <<adapter, stream, attempts>>
                 ELSE /\ pc' = [pc EXCEPT ![c] = "created"]
                      /\ adapter' = [adapter EXCEPT ![c] = a]
                      /\ stream' = [stream EXCEPT ![c] = s]
                      /\ attempts' = [attempts EXCEPT ![c] = @ + 1]
                      /\ UNCHANGED exc
    /\ UNCHANGED <<fixture, global_cfg, http, resp, wire, pos, events, stopped, resume,
                   timing, metrics, recorder, reqvars, sse>>

\* ------------------------------------------------ the SSE text in chunks
\* OpenAIClient._aprocess_streaming_response and
\* SyncOpenAIClient._process_streaming_response (src/src) read the body as
\* chunks of text, cut where the transport cut them.
MaxText == 4

\* the pieces a response text is made of: "p" is the text 'data: ', "x" the
\* JSON text of a chunk with one content delta, "e" the text '[DONE]', "s" a
\* blank and "n" a line feed; the transport cuts between pieces
Pieces == {"p", "x", "e", "s", "n"}

Texts == SeqsUpTo(Pieces, MaxText)

\* a line that is neither blank nor a data line
OtherLine == [k |-> "other", name |-> FALSE, args |-> <<>>, id |-> "none", text |-> <<>>]

\* str.split('\n'): the texts between the line feeds, the last of them the
\* text after the last line feed
RECURSIVE Split(_)
Split(s) ==
    IF s = <<>>
    THEN << <<>> >>
    ELSE LET rest == Split(Tail(s))
         IN  IF Head(s) = "n"
             THEN << <<>> >> \o rest
             ELSE << <<Head(s)>> \o rest[1] >> \o Tail(rest)

RECURSIVE LStrip(_)
LStrip(s) == IF s # <<>> /\ Head(s) = "s" THEN LStrip(Tail(s)) ELSE s

RECURSIVE RStrip(_)
RStrip(s) ==
    IF s # <<>> /\ s[Len(s)] = "s" THEN RStrip(SubSeq(s, 1, Len(s) - 1)) ELSE s

\* str.strip()
Strip(s) == RStrip(LStrip(s))

\* what the loop body makes of one line: line.strip(), the test for an
\* empty line, for 'data: [DONE]', for the prefix 'data: ' (stripping takes
\* the blank off a line that is 'data: ' and nothing more), and json.loads
\* of what follows the prefix
ParseLine(line) ==
    LET st == Strip(line)
    IN  CASE st = <<>> -> BlankLine
          [] st = <<"p", "e">> -> DoneLine
          [] Len(st) >= 2 /\ st[1] = "p" ->
                IF Strip(Tail(st)) = <<"x">> THEN TextLine ELSE BadLine
          [] OTHER -> OtherLine

\* for line in lines[:-1]: the responses yielded for the lines ls, of which
\* the first is line n + 1 of the body, and whether the loop returned
RECURSIVE DecodeLines(_, _)
DecodeLines(ls, n) ==
    IF ls = <<>>
    THEN [events |-> <<>>, returned |-> FALSE]
    ELSE LET d == AProcessStreamingLine(ParseLine(Head(ls)), n + 1)
         IN  IF d.ctl = "stop"
             THEN [events |-> <<>>, returned |-> TRUE]
             ELSE LET r == DecodeLines(Tail(ls), n + 1)
                  IN  [events |-> (IF d.ev.kind = "none" THEN <<>> ELSE <<d.ev>>)
                                    \o r.events,
                       returned |-> r.returned]

\* lines[:-1]
CompleteLines(lines) == SubSeq(lines, 1, Len(lines) - 1)

\* a decoder that starts every chunk with an empty buffer
RemainderDropped(lines) == <<>>

\* buffer = lines[-1]
Remainder(lines) == lines[Len(lines)]

\* one iteration of `for chunk in response.iter_text()`: the next k pieces
\* of the body arrive as one chunk
Chunk ==
    /\ ~returned
    /\ received < Len(text)
    /\ \E k \in 1..(Len(text) - received) :
          LET chunk == SubSeq(text, received + 1, received + k)
              lines == Split(buffer \o chunk)
              out == DecodeLines(CompleteLines(lines), nlines)
          IN  /\ received' = received + k
              /\ cuts' = cuts \cup {received + k}
              /\ buffer' = Remainder(lines)
              /\ nlines' = nlines + Len(lines) - 1
              /\ emitted' = emitted \o out.events
              /\ returned' = out.returned
    /\ UNCHANGED <<fixture, callvars, http, timing, metrics, recorder, reqvars,
                   engine, loader, text>>

\* the body is exhausted: the for loop ends and the generator returns,
\* whatever is left in the buffer
EndOfBody ==
    /\ ~returned
    /\ received = Len(text)
    /\ returned' = TRUE
    /\ UNCHANGED <<fixture, callvars, http, timing, metrics, recorder, reqvars,
                   engine, loader, text, received, cuts, buffer, nlines, emitted>>

\* ------------------------------------------------------------ the wrapper
Results == {"success", "error"}

\* the is_error label of the result counter: str(is_error).lower(), where
\* is_error is set in the same except clause that sets result to "error"
IsErrorLabel(result) == IF result = "error" THEN "true" ELSE "false"

\* tenacity's Retrying.__call__ invokes the decorated function and retries
\* when that invocation raises. run, arun and SyncModelClient.run contain a
\* yield: invoking them executes none of the body and returns the generator
\* object, whatever the body will later do.
RunInvocation == "generator"

\* the instrumented generators an event passes: run of the adapter, and run
\* of the recorder around it, which is a ModelClient with the same cfg
Layers == IF recorded THEN 2 ELSE 1

\* ModelClientRecorder._write_row: the row takes the trace id from the
\* recorder's attribute when it is written
WriteRow(c) ==
    /\ rows' = [rows EXCEPT ![c] = IF recorded THEN Append(@, trace_id) ELSE @]
    /\ UNCHANGED trace_id

\* the prologue of run: the gauge goes up, then the adapter builds and sends
\* the request; a recorder first draws the trace id and writes the request row
Enter(c) ==
    /\ inflight' = [inflight EXCEPT ![Provider(adapter[c])] = @ + Layers]
    /\ first' = [first EXCEPT ![c] = TRUE]
    /\ IF recorded
       THEN /\ trace_id' = c
            /\ rows' = [rows EXCEPT ![c] = <<c>>]
       ELSE UNCHANGED recorder

\* the finally clause of run
Exit(c, result) ==
    /\ inflight' = [inflight EXCEPT ![Provider(adapter[c])] = @ - Layers]
    /\ request_counter' =
           [request_counter EXCEPT
               ![<<Provider(adapter[c]), result, IsErrorLabel(result)>>] = @ + Layers]

\* a wrapper that hands on only the first event of a call
YieldFirstOnly(c, ev) ==
    /\ events' = [events EXCEPT ![c] = IF first[c] THEN Append(@, ev) ELSE @]
    /\ WriteRow(c)
    /\ IF first[c]
       THEN /\ first_token' = [first_token EXCEPT ![c] = @ + Layers]
            /\ first' = [first EXCEPT ![c] = FALSE]
            /\ UNCHANGED token_gap
       ELSE /\ token_gap' = [token_gap EXCEPT ![c] = @ + Layers]
            /\ UNCHANGED <<first, first_token>>

\* a loop body that records a gap at every event, the first included
YieldGapEveryEvent(c, ev) ==
    /\ events' = [events EXCEPT ![c] = Append(@, ev)]
    /\ WriteRow(c)
    /\ token_gap' = [token_gap EXCEPT ![c] = @ + Layers]
    /\ IF first[c]
       THEN /\ first_token' = [first_token EXCEPT ![c] = @ + Layers]
            /\ first' = [first EXCEPT ![c] = FALSE]
       ELSE UNCHANGED <<first, first_token>>

\* the loop body of run: time the event, then yield it to the consumer
Yield(c, ev) ==
    /\ events' = [events EXCEPT ![c] = Append(@, ev)]
    /\ WriteRow(c)
    /\ IF first[c]
       THEN /\ first_token' = [first_token EXCEPT ![c] = @ + Layers]
            /\ first' = [first EXCEPT ![c] = FALSE]
            /\ UNCHANGED token_gap
       ELSE /\ token_gap' = [token_gap EXCEPT ![c] = @ + Layers]
            /\ UNCHANGED <<first, first_token>>

\* the adapter yields ev and the generator suspends there
Suspend(c, ev, then) ==
    /\ Yield(c, ev)
    /\ pc' = [pc EXCEPT ![c] = "yielded"]
    /\ resume' = [resume EXCEPT ![c] = then]
    /\ UNCHANGED <<exc, inflight, request_counter>>

\* an except clause that re-raises without recording the failure
RaiseCountedSuccess(c, e) ==
    /\ pc' = [pc EXCEPT ![c] = "raised"]
    /\ exc' = [exc EXCEPT ![c] = e]
    /\ Exit(c, "success")
    /\ WriteRow(c)
    /\ UNCHANGED <<events, resume, first, first_token, token_gap>>

\* the adapter raises e: run's except clause re-raises it to the consumer
Raise(c, e) ==
    /\ pc' = [pc EXCEPT ![c] = "raised"]
    /\ exc' = [exc EXCEPT ![c] = e]
    /\ Exit(c, "error")
    /\ WriteRow(c)
    /\ UNCHANGED <<events, resume, first, first_token, token_gap>>

\* the adapter's generator ends: run's loop ends
Finish(c) ==
    /\ pc' = [pc EXCEPT ![c] = "exhausted"]
    /\ Exit(c, "success")
    /\ UNCHANGED <<events, exc, resume, first, first_token, token_gap, recorder>>

\* an except clause that yields the error response and lets the loop go on
FailAndGoOn(c, e, content, line) ==
    IF CatchesAll(adapter[c]) \/ (line > 0 /\ CatchesDecoding(adapter[c]))
    THEN Suspend(c, Event("error", content, line), "loop")
    ELSE Raise(c, e)

\* an exception e inside the adapter: caught and turned into an error
\* response, or left to propagate
Fail(c, e, content, line) ==
    IF CatchesAll(adapter[c]) \/ (line > 0 /\ CatchesDecoding(adapter[c]))
    THEN Suspend(c, Event("error", content, line), "end")
    ELSE Raise(c, e)

\* no call made yet, every metric at zero
Fresh ==
    /\ pc = [c \in Calls |-> "idle"]
    /\ adapter = [c \in Calls |-> "none"]
    /\ stream = [c \in Calls |-> FALSE]
    /\ attempts = [c \in Calls |-> 0]
    /\ resp = [c \in Calls |-> "none"]
    /\ wire = [c \in Calls |-> <<>>]
    /\ pos = [c \in Calls |-> 0]
    /\ events = [c \in Calls |-> <<>>]
    /\ exc = [c \in Calls |-> "none"]
    /\ stopped = [c \in Calls |-> FALSE]
    /\ resume = [c \in Calls |-> "none"]
    /\ status = [c \in Calls |-> 0]
    /\ broken = [c \in Calls |-> FALSE]
    /\ first = [c \in Calls |-> FALSE]
    /\ first_token = [c \in Calls |-> 0]
    /\ token_gap = [c \in Calls |-> 0]
    /\ inflight = [p \in Providers |-> 0]
    /\ request_counter = [k \in Providers \X Results \X {"true", "false"} |-> 0]
    /\ prompt_tokens = [p \in Providers |-> 0]
    /\ completion_tokens = [p \in Providers |-> 0]
    /\ trace_id = 0
    /\ rows = [c \in Calls |-> <<>>]
    /\ given = [c \in Calls |-> DefaultRequest]
    /\ request = [c \in Calls |-> DefaultRequest]
    /\ payload = [c \in Calls |-> NoPayload]
    /\ input_cfg = [c \in Calls |-> NoConfig]
    /\ template_cfg = [c \in Calls |-> NoConfig]
    /\ cfg = [c \in Calls |-> NoConfig]
    /\ looked_up = [c \in Calls |-> FALSE]
    /\ layout = "new"
    /\ fetch = "none"
    /\ load_result = "none"
    /\ models = "empty"
    /\ received = 0
    /\ cuts = {}
    /\ buffer = <<>>
    /\ nlines = 0
    /\ emitted = <<>>
    /\ returned = FALSE

\* one call, against every response the vendor can send
Init ==
    /\ active = {1}
    /\ adapterMenu = Adapters
    /\ streamMenu = BOOLEAN
    /\ vendorLines = Lines
    /\ lineCap = MaxLines
    /\ recorded = FALSE
    /\ requestMenu = "default"
    /\ global_cfg = NoConfig
    /\ text = <<>>
    /\ Fresh

\* several streaming calls, interleaved, of an adapter of each provider and
\* of each generation, against short text responses
InitCalls ==
    /\ active = Calls
    /\ adapterMenu = {"claude", "openai_client"}
    /\ streamMenu = {TRUE}
    /\ vendorLines = {TextLine, DoneLine}
    /\ lineCap = MaxLinesCalls
    /\ recorded = FALSE
    /\ requestMenu = "default"
    /\ global_cfg = NoConfig
    /\ text = <<>>
    /\ Fresh

\* several calls, interleaved, made through one ModelClientRecorder
InitRecorder ==
    /\ active = Calls
    /\ adapterMenu = {"openai_client"}
    /\ streamMenu = BOOLEAN
    /\ vendorLines = {TextLine}
    /\ lineCap = MaxLinesCalls
    /\ recorded = TRUE
    /\ requestMenu = "default"
    /\ global_cfg = NoConfig
    /\ text = <<>>
    /\ Fresh

\* one call of each adapter, with every Request, against one text response
InitRequest ==
    /\ active = {1}
    /\ adapterMenu = Adapters
    /\ streamMenu = BOOLEAN
    /\ vendorLines = {TextLine}
    /\ lineCap = MaxLinesCalls
    /\ recorded = FALSE
    /\ requestMenu = "all"
    /\ global_cfg = NoConfig
    /\ text = <<>>
    /\ Fresh

\* an engine with a global config, and one call made through it
InitEngine ==
    /\ active = {1}
    /\ adapterMenu = Adapters
    /\ streamMenu = {TRUE}
    /\ vendorLines = {TextLine}
    /\ lineCap = MaxLinesCalls
    /\ recorded = FALSE
    /\ requestMenu = "default"
    /\ global_cfg \in GlobalConfigs
    /\ text = <<>>
    /\ Fresh

\* one response body of every text up to MaxText pieces, nothing of it read
InitChunks ==
    /\ active = {}
    /\ adapterMenu = {"openai_client"}
    /\ streamMenu = {TRUE}
    /\ vendorLines = {TextLine}
    /\ lineCap = MaxLinesCalls
    /\ recorded = FALSE
    /\ requestMenu = "default"
    /\ global_cfg = NoConfig
    /\ text \in Texts
    /\ Fresh

\* the consumer calls client.run(params) through the retry decorator
Call(c) ==
    /\ c \in active
    /\ pc[c] = "idle"
    /\ \E a \in adapterMenu, s \in streamMenu :
          /\ adapter' = [adapter EXCEPT ![c] = a]
          /\ stream' = [stream EXCEPT ![c] = s]
    /\ attempts' = [attempts EXCEPT ![c] = @ + 1]
    /\ pc' = [pc EXCEPT ![c] =
                 IF RunInvocation = "raise"
                 THEN IF attempts[c] + 1 < MaxAttempts THEN "idle" ELSE "raised"
                 ELSE "created"]
    /\ \E r \in MenuRequests(requestMenu) :
          /\ given' = [given EXCEPT ![c] = r]
          /\ request' = [request EXCEPT ![c] = r]
    /\ UNCHANGED <<fixture, engine, loader, sse, payload, http, resp, wire, pos, events, exc, stopped, resume,
                   timing, recorder, metrics>>

\* the translation of the Request raises e before anything is sent: run's
\* except and finally clauses run in the same pull as its prologue
EnterRaise(c, e) ==
    /\ pc' = [pc EXCEPT ![c] = "raised"]
    /\ exc' = [exc EXCEPT ![c] = e]
    /\ first' = [first EXCEPT ![c] = TRUE]
    /\ request_counter' =
           [request_counter EXCEPT
               ![<<Provider(adapter[c]), "error", IsErrorLabel("error")>>] = @ + Layers]
    /\ IF recorded
       THEN /\ trace_id' = c
            /\ rows' = [rows EXCEPT ![c] = <<c, c>>]
       ELSE UNCHANGED recorder
    /\ UNCHANGED inflight

\* the consumer's first pull starts the body of run, and of the adapter's
\* _run up to the request it sends
RunEnter(c) ==
    /\ pc[c] = "created"
    /\ request' = [request EXCEPT ![c] = Traced(adapter[c], @)]
    /\ IF TranslationRaises(adapter[c], request[c].messages)
       THEN /\ EnterRaise(c, "JSONDecodeError")
            /\ UNCHANGED payload
       ELSE /\ pc' = [pc EXCEPT ![c] = "sending"]
            /\ Enter(c)
            /\ payload' = [payload EXCEPT ![c] = Payload(adapter[c], request[c])]
            /\ UNCHANGED <<exc, request_counter>>
    /\ UNCHANGED <<fixture, engine, loader, sse, given, http, adapter, stream, attempts, resp, wire, pos, events,
                   stopped, resume, first_token, token_gap,
                   prompt_tokens, completion_tokens>>

\* the transport answers the request of _run
Respond(c) ==
    /\ pc[c] = "sending"
    /\ LET a == adapter[c]
           s == stream[c]
       IN  \/ \* connection reset or timeout, in the request or in the body read
              /\ Fail(c, "transport", <<"network">>, 0)
              /\ broken' = [broken EXCEPT ![c] = TRUE]
              /\ UNCHANGED <<resp, wire, pos, status>>
           \/ \* litellm.acompletion returns the completed response
              /\ a = "litellm"
              /\ \E w \in LiteLLMBodies(vendorLines, lineCap) :
                    wire' = [wire EXCEPT ![c] = w]
              /\ resp' = [resp EXCEPT ![c] = "closed"]
              /\ pc' = [pc EXCEPT ![c] = "decoding"]
              /\ UNCHANGED <<pos, events, exc, resume, timing, recorder, inflight,
                             request_counter, status, broken>>
           \/ \E st \in Statuses :
                 /\ a # "litellm"
                 /\ status' = [status EXCEPT ![c] = st]
                 /\ UNCHANGED broken
                 /\ IF IsErrorStatus(a, st)
                    THEN /\ \/ Suspend(c, Event("error", ErrorContent(a), 0), "end")
                            \/ \* the error body is an event stream, which the
                               \* response hook leaves unread: e.response.content
                               \* raises inside the except clause
                               /\ a = "openai_client" /\ s
                               /\ Raise(c, "ResponseNotRead")
                         /\ resp' = [resp EXCEPT ![c] = "closed"]
                         /\ UNCHANGED <<wire, pos>>
                    ELSE IF a = "openai_client" /\ s
                    THEN \* client.stream(): headers only, the body stays on the socket
                         /\ resp' = [resp EXCEPT ![c] = "open"]
                         /\ pc' = [pc EXCEPT ![c] = "decoding"]
                         /\ UNCHANGED <<wire, pos, events, exc, resume, timing, recorder,
                                        inflight, request_counter>>
                    ELSE \* client.post(): the whole body is read, the response closed
                         /\ \E w \in IF s THEN SeqsUpTo(vendorLines, lineCap)
                                          ELSE IF a = "claude"
                                          THEN ClaudeBodies(vendorLines, lineCap)
                                          ELSE {<<b>> : b \in MessageBodies(vendorLines)} :
                               wire' = [wire EXCEPT ![c] = w]
                         /\ resp' = [resp EXCEPT ![c] = "closed"]
                         /\ pc' = [pc EXCEPT ![c] = "decoding"]
                         /\ UNCHANGED <<pos, events, exc, resume, timing, recorder,
                                        inflight, request_counter>>
    /\ UNCHANGED <<fixture, engine, loader, sse, reqvars, adapter, stream, attempts, stopped,
                   prompt_tokens, completion_tokens>>

\* the adapter handles the line l, its i-th
Handle(c, l, i) ==
    LET d == Decode(adapter[c], stream[c], l, i)
        p == Provider(adapter[c])
    IN  /\ prompt_tokens' = [prompt_tokens EXCEPT ![p] = @ + d.usage]
        /\ completion_tokens' = [completion_tokens EXCEPT ![p] = @ + d.usage]
        /\ CASE d.ctl = "stop" -> Finish(c)
             [] d.ctl = "next" /\ d.ev = NoEvent ->
                   UNCHANGED <<pc, events, exc, resume, timing, recorder, inflight, request_counter>>
             [] d.ctl = "next" /\ d.ev # NoEvent -> Suspend(c, d.ev, "loop")
             [] OTHER -> Fail(c, d.ctl, <<"unexpected">>, i)

\* the adapter's decode loop takes one more line
Step(c) ==
    /\ pc[c] = "decoding"
    /\ IF adapter[c] = "openai_client" /\ stream[c]
       THEN \/ \* response.aiter_text() delivers the next line from the socket
               /\ Len(wire[c]) < lineCap
               /\ \E l \in vendorLines :
                     /\ wire' = [wire EXCEPT ![c] = Append(@, l)]
                     /\ pos' = [pos EXCEPT ![c] = @ + 1]
                     /\ Handle(c, l, pos[c] + 1)
                     /\ resp' = [resp EXCEPT ![c] =
                                   IF l.k = "done" THEN "closed" ELSE @]
               /\ UNCHANGED http
            \/ \* the body ends
               /\ Finish(c)
               /\ resp' = [resp EXCEPT ![c] = "closed"]
               /\ UNCHANGED <<wire, pos, http, prompt_tokens, completion_tokens>>
            \/ \* the connection breaks while the body is read
               /\ Fail(c, "transport", <<"network">>, 0)
               /\ broken' = [broken EXCEPT ![c] = TRUE]
               /\ resp' = [resp EXCEPT ![c] = "closed"]
               /\ UNCHANGED <<wire, pos, status, prompt_tokens, completion_tokens>>
       ELSE IF pos[c] < Len(wire[c])
       THEN /\ pos' = [pos EXCEPT ![c] = @ + 1]
            /\ Handle(c, wire[c][pos[c] + 1], pos[c] + 1)
            /\ UNCHANGED <<wire, resp, http>>
       ELSE /\ Finish(c)
            /\ UNCHANGED <<wire, pos, resp, http, prompt_tokens, completion_tokens>>
    /\ UNCHANGED <<fixture, engine, loader, sse, reqvars, adapter, stream, attempts, stopped>>

\* the consumer pulls the next event: the generator resumes after its yield
Resume(c) ==
    /\ pc[c] = "yielded"
    /\ ~stopped[c]
    /\ IF resume[c] = "end"
       THEN Finish(c)
       ELSE /\ pc' = [pc EXCEPT ![c] = "decoding"]
            /\ UNCHANGED <<events, exc, resume, timing, recorder, inflight, request_counter>>
    /\ UNCHANGED <<fixture, engine, loader, sse, reqvars, http, adapter, stream, attempts, resp, wire, pos, stopped,
                   prompt_tokens, completion_tokens>>

\* the consumer breaks out of its loop while the stream is not exhausted
Stop(c) ==
    /\ pc[c] = "yielded"
    /\ ~stopped[c]
    /\ stopped' = [stopped EXCEPT ![c] = TRUE]
    /\ UNCHANGED <<fixture, engine, loader, sse, reqvars, http, pc, adapter, stream, attempts, resp, wire, pos, events,
                   exc, resume, timing, recorder, metrics>>

\* a close that skips the finally clause
CloseWithoutFinally(c) ==
    /\ pc[c] = "yielded"
    /\ stopped[c]
    /\ pc' = [pc EXCEPT ![c] = "closed"]
    /\ UNCHANGED <<fixture, engine, loader, sse, reqvars, http, adapter, stream, attempts, resp, wire, pos, events, exc,
                   stopped, resume, timing, recorder, metrics>>

\* the abandoned generator of run is closed: GeneratorExit at its yield,
\* which except Exception does not catch, then the finally clause
Close(c) ==
    /\ pc[c] = "yielded"
    /\ stopped[c]
    /\ pc' = [pc EXCEPT ![c] = "closed"]
    /\ Exit(c, "success")
    /\ UNCHANGED <<fixture, engine, loader, sse, reqvars, http, adapter, stream, attempts, resp, wire, pos, events, exc,
                   stopped, resume, timing, recorder, prompt_tokens, completion_tokens>>

\* the adapter's own generator is closed in turn: async with client.stream()
\* exits and closes the response
Finalize(c) ==
    /\ pc[c] = "closed"
    /\ resp[c] = "open"
    /\ resp' = [resp EXCEPT ![c] = "closed"]
    /\ UNCHANGED <<fixture, engine, loader, sse, reqvars, http, pc, adapter, stream, attempts, wire, pos, events, exc,
                   stopped, resume, timing, recorder, metrics>>

\* a cancellation that unwinds without closing the streamed response
CancelLeavesOpen(c) ==
    /\ \/ pc[c] = "sending"
       \/ pc[c] = "decoding" /\ adapter[c] = "openai_client" /\ stream[c]
    /\ pc' = [pc EXCEPT ![c] = "cancelled"]
    /\ exc' = [exc EXCEPT ![c] = "CancelledError"]
    /\ stopped' = [stopped EXCEPT ![c] = TRUE]
    /\ Exit(c, "success")
    /\ UNCHANGED <<fixture, engine, loader, sse, reqvars, http, adapter, stream, attempts, resp, wire, pos, events,
                   resume, timing, recorder, prompt_tokens, completion_tokens>>

\* the consumer's task is cancelled while the generator awaits the transport:
\* CancelledError passes except Exception, the streamed response is closed on
\* the way out of async with, and the finally clause of run runs
Cancel(c) ==
    /\ \/ pc[c] = "sending"
       \/ pc[c] = "decoding" /\ adapter[c] = "openai_client" /\ stream[c]
    /\ pc' = [pc EXCEPT ![c] = "cancelled"]
    /\ exc' = [exc EXCEPT ![c] = "CancelledError"]
    /\ stopped' = [stopped EXCEPT ![c] = TRUE]
    /\ resp' = [resp EXCEPT ![c] = IF @ = "open" THEN "closed" ELSE @]
    /\ Exit(c, "success")
    /\ UNCHANGED <<fixture, engine, loader, sse, reqvars, http, adapter, stream, attempts, wire, pos, events,
                   resume, timing, recorder, prompt_tokens, completion_tokens>>

Next ==
    \E c \in Calls :
        \/ Call(c)
        \/ RunEnter(c)
        \/ Respond(c)
        \/ Step(c)
        \/ Resume(c)
        \/ Stop(c)
        \/ Close(c)
        \/ Finalize(c)
        \/ Cancel(c)

Spec == Init /\ [][Next]_vars

SpecCalls == InitCalls /\ [][Next]_vars

SpecRecorder == InitRecorder /\ [][Next]_vars

SpecRequest == InitRequest /\ [][Next]_vars

\* calls made through PromptEngine.run, beside loads of the model configs
NextEngine ==
    \/ Load
    \/ \E c \in Calls :
          \/ EngineRun(c)
          \/ RunEnter(c)
          \/ Respond(c)
          \/ Step(c)
          \/ Resume(c)
          \/ Stop(c)
          \/ Close(c)
          \/ Finalize(c)
          \/ Cancel(c)

SpecEngine == InitEngine /\ [][NextEngine]_vars

\* the decoder reading one body, chunk by chunk
NextChunks == Chunk \/ EndOfBody

SpecChunks == InitChunks /\ [][NextChunks]_vars


\* ---------------------------------------------------------------- claims

\* C1 (as claimed): when the adapter raises a transport exception, the
\* exception reaches the caller only after the third attempt has failed.
C1_RaisesOnlyAfterThreeAttempts ==
    \A c \in Calls :
        (pc[c] = "raised" /\ exc[c] = "transport") => attempts[c] = MaxAttempts

C3_TransportFailureRaises ==
    \A c \in Calls :
        broken[c] =>
            /\ pc[c] = "raised"
            /\ exc[c] = "transport"
            /\ \A i \in DOMAIN events[c] : events[c][i].kind # "error"


\* the events the adapter of call c makes of its first n lines, in line order
RECURSIVE DecodedUpTo(_, _)
DecodedUpTo(c, n) ==
    IF n = 0 THEN <<>>
    ELSE LET d == Decode(adapter[c], stream[c], wire[c][n], n)
         IN  IF d.ev # NoEvent
             THEN Append(DecodedUpTo(c, n - 1), d.ev)
             ELSE DecodedUpTo(c, n - 1)

IsChunkEvent(e) == e.line > 0 /\ e.kind # "error"

\* the events delivered to the consumer of call c that come from wire chunks
ChunkEvents(c) == SelectSeq(events[c], IsChunkEvent)

\* C4: the events delivered to the consumer are exactly the events of the
\* chunks decoded so far, unchanged, each once, in the order of the chunks.
C4_EventsInChunkOrder ==
    \A c \in Calls :
        /\ ChunkEvents(c) = DecodedUpTo(c, pos[c])
        /\ \A i, j \in DOMAIN events[c] :
              (i < j /\ events[c][i].line > 0 /\ events[c][j].line > 0) =>
                  events[c][i].line < events[c][j].line

\* a call that has delivered the events of two different chunks
C4_Witness ==
    \E c \in Calls :
        /\ Len(ChunkEvents(c)) >= 2
        /\ ChunkEvents(c)[1].line < ChunkEvents(c)[2].line
        /\ \E i \in 1..pos[c] : wire[c][i].k \in {"blank", "bad"}


IsToolLine(l) == l.k = "tool"

IsToolUse(e) == e.kind = "tool_use"

\* the tool-call fragments among the lines w, in arrival order
ToolLines(w) == SelectSeq(w, IsToolLine)

\* the argument text of the fragments t, concatenated in arrival order
RECURSIVE ConcatArgs(_)
ConcatArgs(t) ==
    IF t = <<>> THEN <<>> ELSE ConcatArgs(SubSeq(t, 1, Len(t) - 1)) \o t[Len(t)].args

\* the lines w carry one tool call: its first fragment names the function,
\* the later fragments of the same index only continue the argument text
OneSplitCall(w) ==
    LET t == ToolLines(w)
    IN  /\ Len(t) >= 1
        /\ t[1].name
        /\ \A i \in 2..Len(t) : ~t[i].name

ToolUseEvents(c) == SelectSeq(events[c], IsToolUse)

\* the response of call c was decoded to its end
DecodedWhole(c) ==
    /\ status[c] = 200
    /\ pc[c] = "exhausted"
    /\ pos[c] = Len(wire[c])

\* C5 (as claimed): a streamed response that carries one tool call split
\* across N >= 1 fragments yields exactly one tool_use event, whose arguments
\* are the JSON parse of the concatenated argument fragments.
C5_SplitCallAssembled ==
    \A c \in Calls :
        (/\ adapter[c] = "openai"
         /\ stream[c]
         /\ DecodedWhole(c)
         /\ OneSplitCall(wire[c])
         /\ JsonValid(ConcatArgs(ToolLines(wire[c])))) =>
            /\ Len(ToolUseEvents(c)) = 1
            /\ ToolUseEvents(c)[1].content = JsonLoads(ConcatArgs(ToolLines(wire[c])))

\* C6 (as claimed): when the argument text of a tool call is not valid JSON
\* at finalization, streaming or not, the call raises nothing and still
\* delivers one tool_use event for it, with an empty argument object.
C6_BadArgsDegradeToEmpty ==
    \A c \in Calls :
        (/\ adapter[c] = "openai"
         /\ status[c] = 200
         /\ \/ DecodedWhole(c)
            \/ pc[c] = "raised" /\ exc[c] = "JSONDecodeError"
         /\ OneSplitCall(SubSeq(wire[c], 1, pos[c]))
         /\ pos[c] = Len(wire[c])
         /\ ~JsonValid(ConcatArgs(ToolLines(wire[c])))) =>
            /\ exc[c] = "none"
            /\ Len(ToolUseEvents(c)) = 1
            /\ ToolUseEvents(c)[1].content = EmptyArgs


\* call c has an event that comes from its line i
HasEventOfLine(c, i) == \E k \in DOMAIN events[c] : events[c][k].line = i

C7_NoEventNoRaise ==
    \A c \in Calls :
        stream[c] =>
            /\ exc[c] # "JSONDecodeError"
            /\ \A k \in DOMAIN events[c] :
                  events[c][k].line > 0 => wire[c][events[c][k].line].k # "bad"
            /\ \A i, j \in 1..pos[c] :
                  (/\ i < j
                   /\ wire[c][i].k = "bad"
                   /\ Decode(adapter[c], TRUE, wire[c][j], j).ev # NoEvent) =>
                      HasEventOfLine(c, j)

C7_DecodingGoesOn ==
    \A c \in Calls :
        (/\ pc[c] = "decoding"
         /\ stream[c]
         /\ pos'[c] = pos[c] + 1
         /\ wire'[c][pos'[c]].k = "bad") =>
            /\ pc'[c] = "decoding"
            /\ events'[c] = events[c]
            /\ exc'[c] = exc[c]

\* C7: a streamed line that fails JSON decoding yields no event and raises
\* nothing, the decode loop goes on after it, and the events of the later
\* well-formed lines are delivered.
C7_MalformedChunkSkipped == []C7_NoEventNoRaise /\ [][C7_DecodingGoesOn]_vars

\* an event delivered from a line that follows a malformed line
C7_Witness ==
    \E c \in Calls : \E i, j \in 1..pos[c] :
        /\ stream[c]
        /\ i < j
        /\ wire[c][i].k = "bad"
        /\ HasEventOfLine(c, j)

\* C8: once the [DONE] line of a stream is read, the call is over: the
\* decoder takes no further line and every delivered event comes from an
\* earlier line.
C8_DoneEndsDecoding ==
    \A c \in Calls : \A i \in 1..pos[c] :
        (stream[c] /\ wire[c][i].k = "done") =>
            /\ pos[c] = i
            /\ pc[c] = "exhausted"
            /\ \A k \in DOMAIN events[c] : events[c][k].line < i

\* a finished call whose body holds a text line after [DONE], never decoded
C8_Witness ==
    \E c \in Calls :
        /\ stream[c]
        /\ pc[c] = "exhausted"
        /\ pos[c] < Len(wire[c])
        /\ wire[c][pos[c]].k = "done"
        /\ wire[c][pos[c] + 1].k = "text"

\* the event loop runs the pending close of an abandoned generator: a break
\* out of the consumer's loop drops the last reference to the generator, and
\* its finalizer schedules the close
FairSpec ==
    /\ Spec
    /\ \A c \in Calls : WF_vars(Close(c)) /\ WF_vars(Finalize(c))

C9_NoReadAfterStop ==
    \A c \in Calls : stopped[c] => (wire'[c] = wire[c] /\ pos'[c] = pos[c])

InFlightCalls(p) ==
    {c \in Calls : pc[c] \in {"sending", "decoding", "yielded"} /\ Provider(adapter[c]) = p}

\* C10: the in-flight gauge of a provider is the number of its calls that
\* have started and not yet exited, however the other calls ended, and is
\* never negative.
C10_GaugeCountsOpenCalls ==
    \A p \in Providers :
        /\ inflight[p] = Cardinality(InFlightCalls(p))
        /\ inflight[p] >= 0

\* one call ended by the consumer stopping early, another by an exception,
\* while a call of the same provider is still in flight
C10_Witness ==
    \E c1, c2 \in Calls :
        /\ pc[c1] \in {"closed", "raised"}
        /\ pc[c2] = "yielded"
        /\ Provider(adapter[c1]) = Provider(adapter[c2])
        /\ inflight[Provider(adapter[c2])] = 1

\* the calls of provider p that are over, by the way they ended
EndedCalls(p, ends) ==
    {c \in Calls : pc[c] \in ends /\ Provider(adapter[c]) = p}

C12_OneFirstTokenThenGaps ==
    \A c \in Calls :
        IF Len(events[c]) = 0
        THEN first_token[c] = 0 /\ token_gap[c] = 0
        ELSE first_token[c] = 1 /\ token_gap[c] = Len(events[c]) - 1

\* a call that delivered three events: one first-token observation, two gaps
C12_Witness ==
    \E c \in Calls :
        /\ Len(events[c]) = 3
        /\ first_token[c] = 1
        /\ token_gap[c] = 2

IsError(e) == e.kind = "error"

\* C13: among the events one call delivers at most one is of kind error,
\* and it is the last one delivered; a call that delivered an error event
\* does not also raise an exception out of the adapter.
C13_ErrorEventIsLast ==
    \A c \in Calls :
        /\ \A i \in DOMAIN events[c] :
              IsError(events[c][i]) => i = Len(events[c])
        /\ Len(SelectSeq(events[c], IsError)) <= 1
        /\ (\E i \in DOMAIN events[c] : IsError(events[c][i])) => pc[c] # "raised"

\* a call that delivered an event, then an error event, and then ended
C13_Witness ==
    \E c \in Calls :
        /\ pc[c] = "exhausted"
        /\ Len(events[c]) >= 2
        /\ events[c][1].kind # "error"
        /\ IsError(events[c][Len(events[c])])

\* C14 (as claimed): calls on one client instance share no call-specific
\* state: the rows a recorder writes for a call all carry the trace id drawn
\* for that call, as they do when the call runs alone.
C14_RowsCarryOwnTraceId ==
    \A c \in Calls : \A i \in DOMAIN rows[c] : rows[c][i] = c

\* C15 (as claimed): after a call, whatever its outcome, every field of the
\* caller's Request equals its value before the call.
C15_RequestUnchanged ==
    \A c \in Calls : request[c] = given[c]

\* C15 (amended): after a call, whatever its outcome, the message list, each
\* message, the tool parameters and every field of the caller's Request other
\* than trace_context equal their values before the call.
C15_RequestUnchangedButTrace ==
    \A c \in Calls :
        \A f \in DOMAIN request[c] \ {"trace_context"} : request[c][f] = given[c][f]

\* a finished call of the src/src client with tools and overrides, whose
\* Request now holds telemetry
C15_Witness ==
    \E c \in Calls :
        /\ adapter[c] = "openai_client"
        /\ pc[c] = "exhausted"
        /\ given[c].tools
        /\ given[c].model \in NoTopPModels
        /\ "top_p" \in given[c].extra_params
        /\ request[c].trace_context # given[c].trace_context

\* the adapter of call c has built its wire request
Built(c) ==
    /\ pc[c] \notin {"idle", "created"}
    /\ ~TranslationRaises(adapter[c], given[c].messages)

\* C16 (as claimed): for every key of the Request's provider-specific
\* overrides, the outgoing wire request holds the key with the override's
\* value, whatever this layer computed for the key.
C16_OverridesWin ==
    \A c \in Calls :
        Built(c) => \A k \in given[c].extra_params : payload[c][k] = "override"

\* C17 (as claimed): for a Request that carries tools and does not override
\* tool_choice, policy auto gives a wire request without a tool-choice
\* field, policy none one whose tool-choice disables tool use, and policy
\* required the vendor's spelling: {"type": "any"} for the Anthropic
\* adapter, the literal "required" for the OpenAI adapters.
C17_ToolPolicyMapping ==
    \A c \in Calls :
        (/\ Built(c)
         /\ adapter[c] \in {"openai", "claude", "openai_client"}
         /\ given[c].tools
         /\ "tool_choice" \notin given[c].extra_params) =>
            /\ given[c].choice = "auto" => payload[c].tool_choice = "absent"
            /\ given[c].choice = "none" => payload[c].tool_choice = "none"
            /\ given[c].choice = "required" =>
                  payload[c].tool_choice =
                      IF adapter[c] = "claude" THEN "any" ELSE "required"

\* the vendor's name-qualified forced-call object naming get_time:
\* {"type": "function", "function": {"name": "get_time"}} for OpenAI,
\* {"type": "tool", "name": "get_time"} for Anthropic
ForcedCall(a) == IF a = "claude" THEN "tool:get_time" ELSE "fn:get_time"

\* C18 (as claimed): a Request whose tool policy forces the tool get_time
\* (choice force with force_tool get_time, or the forced-call object itself)
\* gives, for each adapter, a wire request whose tool-choice field is exactly
\* the vendor's forced-call object naming get_time.
C18_ForcedToolSpelling ==
    \A c \in Calls :
        (/\ Built(c)
         /\ adapter[c] \in {"openai", "claude"}
         /\ given[c].tools
         /\ given[c].choice \in {"force", "fn:get_time"}
         /\ "tool_choice" \notin given[c].extra_params) =>
            payload[c].tool_choice = ForcedCall(adapter[c])

\* the message kinds an adapter supports: the Anthropic adapter also takes
\* the kind image
SupportedKinds(a) ==
    {"text", "thinking", "image_url", "tool_use", "tool_result"}
        \cup (IF a = "claude" THEN {"image"} ELSE {})

\* a tool_use message whose content is a str that is not JSON
IsUnparsable(m) ==
    m.kind = "tool_use" /\ m.content.t = "str" /\ ~IsJsonText(m.content)

\* C19: the wire message list of the adapters of openai.py, claude.py and
\* litellm.py has one message for each message of a supported kind, in the
\* Request's order; a message of another kind is left out, raises nothing,
\* and each other message is translated as it is without it.
C19_UnsupportedKindsDropped ==
    \A c \in Calls :
        (pc[c] \notin {"idle", "created"} /\ adapter[c] \in {"openai", "claude", "litellm"}) =>
            LET IsSupported(m) == m.kind \in SupportedKinds(adapter[c])
                kept == SelectSeq(given[c].messages, IsSupported)
            IN  IF \E i \in DOMAIN given[c].messages : IsUnparsable(given[c].messages[i])
                THEN pc[c] = "raised"
                ELSE /\ exc[c] # "JSONDecodeError"
                     /\ Len(payload[c].messages) = Len(kept)
                     /\ \A i \in DOMAIN kept :
                           payload[c].messages[i] = WireMessage(adapter[c], kept[i])

\* a Request with a file message before a tool result, sent with the tool
\* result as its only wire message
C19_Witness ==
    \E c \in Calls :
        /\ adapter[c] = "openai"
        /\ pc[c] = "exhausted"
        /\ Len(given[c].messages) = 2
        /\ given[c].messages[1].kind = "file"
        /\ given[c].messages[2].kind = "tool_result"
        /\ Len(payload[c].messages) = 1
        /\ payload[c].messages[1].role = "tool"

\* the vendor's tool-result convention: a message of role tool for the
\* OpenAI adapter, a tool_result content block for the Anthropic adapter
IsToolResultOnWire(a, w) ==
    IF a = "claude" THEN w.type = "tool_result" ELSE w.role = "tool" /\ w.type = "content"

\* C20 (as claimed): every tool_result message is sent in the vendor's
\* tool-result convention, and its content on the wire is a string: the
\* message's content if that is a string, its serialization otherwise.
C20_ToolResultContentIsString ==
    \A c \in Calls :
        (Built(c) /\ adapter[c] \in {"openai", "claude"}) =>
            LET IsSupported(m) == m.kind \in SupportedKinds(adapter[c])
                kept == SelectSeq(given[c].messages, IsSupported)
            IN  \A i \in DOMAIN kept :
                    kept[i].kind = "tool_result" =>
                        /\ i \in DOMAIN payload[c].messages
                        /\ IsToolResultOnWire(adapter[c], payload[c].messages[i])
                        /\ payload[c].messages[i].content =
                               IF kept[i].content.t = "str" THEN kept[i].content
                               ELSE JsonDumps(kept[i].content)

\* C21 (as claimed): every tool_use event an adapter of openai.py or
\* claude.py delivers, from a streaming or a non-streaming response, carries
\* the call id the vendor sent with the tool call.
C21_ToolUseCarriesCallId ==
    \A c \in Calls :
        adapter[c] \in {"openai", "claude"} =>
            \A i \in DOMAIN events[c] :
                (IsToolUse(events[c][i]) /\ wire[c][events[c][i].line].id # "none") =>
                    events[c][i].call_id = wire[c][events[c][i].line].id

\* the calls of the adapters of openai.py and claude.py for provider p among
\* whose decoded chunks at least one carries a usage record
CallsWithUsage(p) ==
    {c \in Calls :
        /\ adapter[c] \in {"openai", "claude"}
        /\ Provider(adapter[c]) = p
        /\ \E i \in 1..pos[c] : wire[c][i].k = "usage"}

\* C22 (as claimed): each call adds the usage the vendor reported to the
\* prompt-token counter and to the completion-token counter once, however
\* many chunks of its stream carry a usage record: with one token reported,
\* either counter is at most the number of calls that decoded a usage
\* record, and at least the number of those that raised nothing.
C22_UsageCountedOncePerAttempt ==
    \A p \in Providers :
        /\ prompt_tokens[p] <= Cardinality(CallsWithUsage(p))
        /\ completion_tokens[p] <= Cardinality(CallsWithUsage(p))
        /\ prompt_tokens[p] >= Cardinality({c \in CallsWithUsage(p) : exc[c] = "none"})
        /\ completion_tokens[p] >= Cardinality({c \in CallsWithUsage(p) : exc[c] = "none"})

IsText(e) == e.kind = "text"

\* the contents of the text events among evs, concatenated in delivery order
RECURSIVE ConcatText(_)
ConcatText(evs) ==
    IF evs = <<>> THEN <<>>
    ELSE LET e == evs[Len(evs)]
             before == ConcatText(SubSeq(evs, 1, Len(evs) - 1))
         IN  IF IsText(e) THEN before \o e.content ELSE before

\* the text of the reply the lines w carry, piece by piece
RECURSIVE ReplyText(_)
ReplyText(w) ==
    IF w = <<>> THEN <<>> ELSE ReplyText(SubSeq(w, 1, Len(w) - 1)) \o w[Len(w)].text

\* the non-streaming response of adapter a's vendor for the reply that the
\* stream w carries: the whole text as one content, and the tool call whole
Fixture(a, w) ==
    LET T == ReplyText(w)
        t == ToolLines(w)
        call == [k |-> "tool", name |-> TRUE, args |-> ConcatArgs(t),
                 id |-> IF t = <<>> THEN "none" ELSE t[1].id, text |-> <<>>]
        content == [k |-> "text", name |-> FALSE, args |-> <<>>, id |-> "none", text |-> T]
    IN  IF a = "claude"
        THEN (IF T = <<>> THEN <<>> ELSE <<content>>) \o (IF t = <<>> THEN <<>> ELSE <<call>>)
        ELSE IF t = <<>> THEN <<content>>
        ELSE IF T = <<>> THEN <<call>>
        ELSE <<[call EXCEPT !.k = "both", !.text = T]>>

\* the events the non-streaming branch of adapter a makes of the body b
RECURSIVE BodyEvents(_, _)
BodyEvents(a, b) ==
    IF b = <<>> THEN <<>>
    ELSE LET d == Decode(a, FALSE, b[Len(b)], Len(b))
             before == BodyEvents(a, SubSeq(b, 1, Len(b) - 1))
         IN  IF d.ev # NoEvent THEN Append(before, d.ev) ELSE before

\* C23 (as claimed): for the same reply, the contents of the text events of
\* the streaming response, concatenated in delivery order, equal the content
\* of the text events of the non-streaming response.
C23_StreamedTextEqualsWhole ==
    \A c \in Calls :
        (/\ adapter[c] \in {"openai", "claude"}
         /\ stream[c]
         /\ DecodedWhole(c)
         /\ \/ ToolLines(wire[c]) = <<>>
            \/ OneSplitCall(wire[c]) /\ JsonValid(ConcatArgs(ToolLines(wire[c])))) =>
            ConcatText(events[c]) =
                ConcatText(BodyEvents(adapter[c], Fixture(adapter[c], wire[c])))

\* the text events call c has delivered
TextEvents(c) == SelectSeq(events[c], IsText)

\* C24 (as claimed): a non-streaming call whose reply holds text delivers
\* exactly one text event, whose content is the text extracted from the
\* reply: message.content for the OpenAI adapter, the concatenation of the
\* text blocks for the Anthropic adapter.
C24_ContentEqualsExtracted ==
    \A c \in Calls :
        (/\ adapter[c] \in {"openai", "claude"}
         /\ ~stream[c]
         /\ DecodedWhole(c)
         /\ ReplyText(wire[c]) # <<>>) =>
            /\ Len(TextEvents(c)) = 1
            /\ TextEvents(c)[1].content = ReplyText(wire[c])

\* C27 (as claimed): a streamed chunk that carries only a usage record has
\* its usage recorded, raises nothing and does not end the stream: the
\* adapters of openai.py and openai_client.py go on to the lines after it.
C27_UsageOnlyChunkRecorded ==
    \A c \in Calls : \A i \in 1..pos[c] :
        (/\ adapter[c] \in {"openai", "openai_client"}
         /\ stream[c]
         /\ wire[c][i].k = "usage") =>
            /\ exc[c] # "IndexError"
            /\ prompt_tokens[Provider(adapter[c])] >= 1
            /\ completion_tokens[Provider(adapter[c])] >= 1
            /\ (pc[c] = "exhausted" /\ pos[c] = i) => Len(wire[c]) = i

\* C28 (as claimed): when an event of a streaming call is handed to the
\* consumer, the adapter has received no line of the response beyond the
\* line the event comes from.
C28_EventBeforeLaterChunks ==
    \A c \in Calls :
        (/\ adapter[c] \in {"openai", "claude"}
         /\ stream[c]
         /\ pc[c] = "yielded"
         /\ status[c] = 200) =>
            Len(wire[c]) = pos[c]

\* the engine has run call c with a merged config that lacks a provider id,
\* names a provider no client is registered for, or lacks a model name
BadConfig(c) ==
    /\ pc[c] # "idle"
    /\ \/ Empty(cfg[c].provider)
       \/ CreateClient(cfg[c].provider) = "none"
       \/ Empty(cfg[c].model)

\* call c has sent nothing to the model vendor
NoVendorRequest(c) ==
    /\ payload[c] = NoPayload
    /\ status[c] = 0
    /\ ~broken[c]
    /\ resp[c] = "none"
    /\ wire[c] = <<>>
    /\ events[c] = <<>>

C26_LoadRaisesHttpError ==
    fetch \in {"RequestError", "HTTPStatusError"} => load_result = fetch

\* the first non-empty value of field f among the input config, the config
\* of the template variant and the global config, in that order
FirstNonEmpty(f, i, t, g) ==
    IF i.given /\ ~Empty(i[f]) THEN i[f]
    ELSE IF t.given /\ ~Empty(t[f]) THEN t[f]
    ELSE IF g.given /\ ~Empty(g[f]) THEN g[f]
    ELSE "none"

\* C29 (as claimed): the merged value of every field is the first non-empty
\* value among input config, template variant config and global config, in
\* that order, and ValueError is raised exactly when provider or model is
\* still missing after merging.
C29_FieldwisePriority ==
    \A c \in Calls :
        pc[c] # "idle" =>
            LET First(f) == FirstNonEmpty(f, input_cfg[c], template_cfg[c], global_cfg)
                missing == Empty(First("provider")) \/ Empty(First("model"))
            IN  /\ \A f \in Fields : ~Empty(First(f)) => cfg[c][f] = First(f)
                /\ missing => (pc[c] = "raised" /\ exc[c] = "ValueError")
                /\ (~missing /\ CreateClient(First("provider")) # "none") =>
                       exc[c] # "ValueError"

\* -------------------------------------------------------------------- C30
\* the responses the decoder yields for the text t when t arrives as one chunk
WholeEvents(t) == DecodeLines(CompleteLines(Split(t)), 0).events

\* C30: whatever chunks the body has arrived in, the decoder has yielded
\* what it yields for the text received so far arriving as one chunk, and
\* once it has returned it has yielded what it yields for the whole body
\* arriving as one chunk.
C30_SameEventsHoweverChunked ==
    /\ emitted = WholeEvents(SubSeq(text, 1, received))
    /\ returned => emitted = WholeEvents(text)

\* a data line that arrived in three chunks was decoded once
C30_Witness ==
    /\ text = <<"p", "s", "x", "n">>
    /\ {1, 2} \subseteq cuts
    /\ returned
    /\ emitted = <<Event("text", TextLine.text, 1)>>

====
